---------------------------- MODULE Spec2Model ----------------------------
(***************************************************************************)
(* Conversation orchestration of the zakat calculator chat front end:      *)
(* ZakatHandler (src/unnamed/part_003) and the nested ReminderHandler      *)
(* (src/unnamed/part_005).                                                 *)
(*                                                                         *)
(* The browser is single threaded: every listener, timer callback and      *)
(* fetch continuation runs to completion, so each is one action.  Pending  *)
(* setTimeout callbacks are kept in `tasks` (in the order they were set,   *)
(* with their delay), requests in flight in `fetches`, and the rendered    *)
(* choice prompts of the transcript in `dom`.  Text is a sequence of       *)
(* one-character strings.                                                  *)
(***************************************************************************)
EXTENDS Integers, Sequences, FiniteSets, TLC

VARIABLES
    state,      \* ZakatHandler.state
    rstate,     \* ReminderHandler.state
    tasks,      \* pending setTimeout callbacks, oldest first
    fetches,    \* requests in flight, oldest first
    dom,        \* rendered choice prompts: year-type, year list, reminder offer
    hist,       \* history: what the last handler did, and the sessions' bookkeeping
    budget      \* external events still allowed by the bounds

vars == <<state, rstate, tasks, fetches, dom, hist, budget>>

(***************************************************************************)
(* Bounds of the model.                                                    *)
(***************************************************************************)
MaxEvents == 3          \* intents to the orchestrator: start-flow, free text, cancel
MaxStarts == 2          \* start-flow intents among them
MaxCancels == 1         \* cancel events among them
MaxReminderMsgs == 6    \* free-text messages while the reminder sub-flow is active
MaxYears == 6           \* entries of a year list the calendar service returns

(***************************************************************************)
(* Values                                                                  *)
(***************************************************************************)
Null == "null"              \* JavaScript null
Undefined == "undefined"    \* JavaScript undefined, also the key it coerces to

NoValue == [k |-> "null"]   \* null where a number is expected
NullText == <<"null">>      \* null where a text is expected (no text has this form)
Amount(n) == [k |-> "int", v |-> n]   \* the amount of a result, as the reminder keeps it
Num(neg, int, frac) == [k |-> "num", neg |-> neg, int |-> int, frac |-> frac]
Zero == Num(FALSE, <<"0">>, <<>>)

EmptyData == [f \in {} |-> NoValue]
Put(d, key, v) == [f \in (DOMAIN d) \cup {key} |-> IF f = key THEN v ELSE d[f]]

Digits == {"0", "1", "2", "3", "4", "5", "6", "7", "8", "9"}

(***************************************************************************)
(* Text helpers: String.prototype functions on sequences of characters.    *)
(***************************************************************************)
Remove(s, chars) == SelectSeq(s, LAMBDA c : c \notin chars)

RECURSIVE DigitRun(_)
\* the longest prefix of s made of digits
DigitRun(s) ==
    IF s # <<>> /\ Head(s) \in Digits THEN <<Head(s)>> \o DigitRun(Tail(s)) ELSE <<>>

Drop(s, n) == SubSeq(s, n + 1, Len(s))

StartsWith(s, p) == Len(s) >= Len(p) /\ SubSeq(s, 1, Len(p)) = p

Includes(s, p) == \E i \in 0..(Len(s) - Len(p)) : SubSeq(s, i + 1, i + Len(p)) = p

RECURSIVE TrimLeft(_)
TrimLeft(s) == IF s # <<>> /\ Head(s) = " " THEN TrimLeft(Tail(s)) ELSE s

RECURSIVE TrimRight(_)
TrimRight(s) ==
    IF s # <<>> /\ s[Len(s)] = " " THEN TrimRight(SubSeq(s, 1, Len(s) - 1)) ELSE s

Trim(s) == TrimRight(TrimLeft(s))

LowerOf(c) ==
    CASE c = "A" -> "a" [] c = "B" -> "b" [] c = "C" -> "c" [] c = "E" -> "e"
      [] c = "L" -> "l" [] c = "M" -> "m" [] c = "N" -> "n" [] c = "R" -> "r"
      [] c = "T" -> "t" [] c = "U" -> "u" [] c = "K" -> "k" [] c = "P" -> "p"
      [] c = "S" -> "s" [] c = "Z" -> "z" [] OTHER -> c

ToLowerCase(s) == [i \in 1..Len(s) |-> LowerOf(s[i])]

RECURSIVE StripLeadingZeros(_)
StripLeadingZeros(s) ==
    IF Len(s) > 1 /\ Head(s) = "0" THEN StripLeadingZeros(Tail(s)) ELSE s

RECURSIVE StripTrailingZeros(_)
StripTrailingZeros(s) ==
    IF s # <<>> /\ s[Len(s)] = "0"
    THEN StripTrailingZeros(SubSeq(s, 1, Len(s) - 1)) ELSE s

\* parseFloat on text without an exponent part: optional sign, digits, optional
\* fraction; the longest such prefix is read, NoValue stands for NaN
ParseFloat(s) ==
    LET signed == s # <<>> /\ Head(s) \in {"+", "-"}
        neg == s # <<>> /\ Head(s) = "-"
        body == IF signed THEN Tail(s) ELSE s
        int == DigitRun(body)
        rest == Drop(body, Len(int))
        frac == IF rest # <<>> /\ Head(rest) = "." THEN DigitRun(Tail(rest)) ELSE <<>>
    IN  IF int = <<>> /\ frac = <<>> THEN NoValue
        ELSE Num(neg, StripLeadingZeros(IF int = <<>> THEN <<"0">> ELSE int),
                 StripTrailingZeros(frac))

IsZero(v) == v.k = "num" /\ v.int = <<"0">> /\ v.frac = <<>>
IsNegative(v) == v.k = "num" /\ v.neg /\ ~IsZero(v)


(***************************************************************************)
(* Flow catalog: ZakatHandler.zakatTypes, plus the nisab entry that        *)
(* showNisabYearSelection adds.                                            *)
(***************************************************************************)
Variants == {"income_kaedah_a", "income_kaedah_b", "savings", "padi",
             "saham", "perak", "kwsp"}

zakatTypes ==
    [income_kaedah_a |-> <<"year_type", "year", "amount">>,
     income_kaedah_b |-> <<"year_type", "year", "amount", "expenses">>,
     savings         |-> <<"year_type", "year", "amount">>,
     padi            |-> <<"year_type", "year", "jumlah_hasil_rm">>,
     saham           |-> <<"year_type", "year", "nilai_portfolio", "hutang_saham">>,
     perak           |-> <<"year_type", "year", "berat_perak_g", "harga_per_gram">>,
     kwsp            |-> <<"year_type", "year", "jumlah_akaun_1", "jumlah_akaun_2",
                           "jumlah_pengeluaran">>,
     nisab           |-> <<"year_type", "year">>]

\* config.steps[i] of JavaScript, i counted from 0; undefined past the end
StepName(type, i) ==
    IF i < Len(zakatTypes[type]) THEN zakatTypes[type][i + 1] ELSE Undefined

\* the field names a variant declares after the two shared year steps
FieldsOf(type) ==
    IF type = Null THEN {}
    ELSE {zakatTypes[type][i] : i \in 3..Len(zakatTypes[type])}

IncomeMethodOf(type) ==
    IF type = "income_kaedah_a" THEN "kaedah_a"
    ELSE IF type = "income_kaedah_b" THEN "kaedah_b" ELSE Null

(***************************************************************************)
(* Input validator of the orchestrator                                     *)
(***************************************************************************)
OptionalFields == {"hutang_saham", "jumlah_pengeluaran"}

\* message.replace(/[RM,\s]/gi, '').trim()
stripped(message) == Trim(Remove(message, {"R", "r", "M", "m", ",", " "}))

validateInputNoDefault(message, stepName) ==
    LET number == ParseFloat(stripped(message))
    IN  IF number = NoValue \/ IsNegative(number) THEN NoValue ELSE number
validateInput(message, stepName) ==
    LET cleaned == Remove(message, {"R", "r", "M", "m", ",", " "})
        number == ParseFloat(cleaned)
    IN  IF stepName \in OptionalFields /\ cleaned = <<>> THEN Zero
        ELSE IF number = NoValue \/ IsNegative(number) THEN NoValue
        ELSE number

(***************************************************************************)
(* Timer delays (milliseconds)                                             *)
(***************************************************************************)
DelayPrompt == 500
DelayNisabPrompt == 300
DelayFallbackYears == 300
DelayResult == 800
DelayOffer == 1000
DelayTeardown == 100
DelayReminder == 500
DelaySaved == 800

Task(kind, delay, arg) == [k |-> kind, d |-> delay, a |-> arg]
NoArg == [none |-> TRUE]

\* a timer set later with an equal or longer delay cannot fire before an earlier one
CanFire(i) == \A j \in 1..(i - 1) : tasks[j].d > tasks[i].d

Due(i, kind) == i \in DOMAIN tasks /\ tasks[i].k = kind /\ CanFire(i)

Without(seq, i) == SubSeq(seq, 1, i - 1) \o SubSeq(seq, i + 1, Len(seq))

Copies(x, n) == [i \in 1..n |-> x]

(***************************************************************************)
(* Session records                                                         *)
(***************************************************************************)
\* ZakatHandler.resetState: the value of an idle Session
IdleState ==
    [active |-> FALSE, type |-> Null, step |-> 0, data |-> EmptyData,
     yearType |-> Null, year |-> Null, availableYears |-> <<>>,
     incomeMethod |-> Null]

resetStateKeepsYear == [IdleState EXCEPT !.year = "1448"]
resetState == IdleState

\* the Session object built by startZakatCalculation(type)
startZakatCalculation(type) ==
    [active |-> TRUE, type |-> type, step |-> 0, data |-> EmptyData,
     yearType |-> Null, year |-> Null, availableYears |-> <<>>,
     incomeMethod |-> IncomeMethodOf(type)]

\* the Session object built by showNisabYearSelection (it has no incomeMethod)
showNisabYearSelection ==
    [active |-> TRUE, type |-> "nisab", step |-> 0, data |-> EmptyData,
     yearType |-> Null, year |-> Null, availableYears |-> <<>>,
     incomeMethod |-> Undefined]

\* ReminderHandler.resetState
ReminderIdle ==
    [active |-> FALSE, waitingFor |-> Null,
     data |-> [name |-> NullText, ic_number |-> NullText, phone |-> NullText,
               zakat_type |-> Null, zakat_amount |-> NoValue]]

\* ReminderHandler.startReminderFlow(zakatType, zakatAmount)
startReminderFlow(zakatType, zakatAmount) ==
    [active |-> TRUE, waitingFor |-> Null,
     data |-> [name |-> NullText, ic_number |-> NullText, phone |-> NullText,
               zakat_type |-> zakatType, zakat_amount |-> zakatAmount]]

isActiveWhenWaiting == rstate.active /\ rstate.waitingFor # Null
isActive == rstate.active

(***************************************************************************)
(* History.  ev names what the last handler did; chosenYT/chosenY are the  *)
(* choices the user made since the current Session object was created;     *)
(* sessCalcs counts the computation requests it dispatched; owed counts    *)
(* the qualifying results whose reminder hand-off has not happened yet;    *)
(* late and qual describe the reply the last handler dealt with; answer is *)
(* the consent choice made since the current ReminderSession was created   *)
(* ("no" once the user declined) and saves counts the persistence requests *)
(* sent for it; greeting is the name the confirmation of a saved reminder  *)
(* addressed, when the last handler presented one; blank tells whether the *)
(* free text the orchestrator validated was empty after stripping.  A      *)
(* request in flight records in `own` what became of the Session object    *)
(* that sent it: "current", "replaced" (a later start or teardown) or      *)
(* "cancelled" (cancel() while the request was in flight).                 *)
(***************************************************************************)
HistInit ==
    [ev |-> "init", chosenYT |-> Null, chosenY |-> Null,
     sessCalcs |-> 0, owed |-> 0, late |-> FALSE, qual |-> FALSE, answer |-> Null,
     saves |-> 0, greeting |-> NullText, blank |-> FALSE]

Ev(h, e) ==
    [h EXCEPT !.ev = e, !.late = FALSE, !.qual = FALSE, !.greeting = NullText,
              !.blank = FALSE]

\* bookkeeping of a newly created Session object
Created(h, e) ==
    [Ev(h, e) EXCEPT !.chosenYT = Null, !.chosenY = Null, !.sessCalcs = 0]

\* bookkeeping of resetState
Torn(h, e) ==
    [Ev(h, e) EXCEPT !.chosenYT = Null, !.chosenY = Null, !.sessCalcs = 0]

\* the requests in flight once the Session object that sent them is gone
Orphaned(fs, how) ==
    [j \in DOMAIN fs |-> IF fs[j].own = "current" THEN [fs[j] EXCEPT !.own = how]
                         ELSE fs[j]]

Init ==
    /\ state = IdleState
    /\ rstate = ReminderIdle
    /\ tasks = <<>>
    /\ fetches = <<>>
    /\ dom = <<>>
    /\ hist = HistInit
    /\ budget = [events |-> MaxEvents, starts |-> MaxStarts, cancels |-> MaxCancels,
                 reminder |-> MaxReminderMsgs]

(***************************************************************************)
(* Intent detection: ZakatHandler.detectZakatIntent                        *)
(***************************************************************************)
IncludesAny(msg, keywords) == \E k \in keywords : Includes(msg, k)

\* keywords of topics the calculator does not handle: the message is left to the FAQ
FilteredKeywords ==
    {<<"e", "m", "a", "s">>,
     <<"b", "u", "l", "a", "n", "a", "n">>,
     <<"p", "e", "r", "a", "k">>,
     <<"t", "a", "h", "u", "n", "a", "n">>,
     <<"d", "i", "k", "i", "r", "a">>,
     <<"z", "a", "k", "a", "t", " ", "p", "e", "r", "n", "i", "a", "g", "a", "a", "n">>,
     <<"z", "a", "k", "a", "t", " ", "t", "e", "r", "n", "a", "k", "a", "n">>,
     <<"z", "a", "k", "a", "t", " ", "p", "e", "r", "t", "a", "n", "i", "a", "n">>,
     <<"p", "e", "l", "a", "b", "u", "r", "a", "n">>}

IncomeKeywords ==
    {<<"k", "i", "r", "a", " ", "z", "a", "k", "a", "t", " ", "p", "e", "n", "d", "a", "p", "a", "t", "a", "n">>,
     <<"z", "a", "k", "a", "t", " ", "p", "e", "n", "d", "a", "p", "a", "t", "a", "n">>,
     <<"z", "a", "k", "a", "t", " ", "g", "a", "j", "i">>,
     <<"z", "a", "k", "a", "t", " ", "i", "n", "c", "o", "m", "e">>}

SavingsKeywords ==
    {<<"k", "i", "r", "a", " ", "z", "a", "k", "a", "t", " ", "s", "i", "m", "p", "a", "n", "a", "n">>,
     <<"z", "a", "k", "a", "t", " ", "s", "i", "m", "p", "a", "n", "a", "n">>,
     <<"z", "a", "k", "a", "t", " ", "w", "a", "n", "g">>,
     <<"z", "a", "k", "a", "t", " ", "s", "a", "v", "i", "n", "g", "s">>}

PadiKeywords ==
    {<<"k", "i", "r", "a", " ", "z", "a", "k", "a", "t", " ", "p", "a", "d", "i">>,
     <<"z", "a", "k", "a", "t", " ", "p", "a", "d", "i">>,
     <<"z", "a", "k", "a", "t", " ", "b", "e", "r", "a", "s">>}

SahamKeywords ==
    {<<"k", "i", "r", "a", " ", "z", "a", "k", "a", "t", " ", "s", "a", "h", "a", "m">>,
     <<"z", "a", "k", "a", "t", " ", "s", "a", "h", "a", "m">>,
     <<"z", "a", "k", "a", "t", " ", "p", "o", "r", "t", "f", "o", "l", "i", "o">>}

PerakKeywords ==
    {<<"k", "i", "r", "a", " ", "z", "a", "k", "a", "t", " ", "p", "e", "r", "a", "k">>,
     <<"z", "a", "k", "a", "t", " ", "p", "e", "r", "a", "k">>,
     <<"z", "a", "k", "a", "t", " ", "s", "i", "l", "v", "e", "r">>}

KwspKeywords ==
    {<<"k", "i", "r", "a", " ", "z", "a", "k", "a", "t", " ", "k", "w", "s", "p">>,
     <<"z", "a", "k", "a", "t", " ", "k", "w", "s", "p">>,
     <<"z", "a", "k", "a", "t", " ", "e", "p", "f">>}

MenuKeywords ==
    {<<"k", "i", "r", "a", " ", "z", "a", "k", "a", "t">>,
     <<"z", "a", "k", "a", "t", " ", "k", "a", "l", "k", "u", "l", "a", "t", "o", "r">>,
     <<"k", "a", "l", "k", "u", "l", "a", "t", "o", "r", " ", "z", "a", "k", "a", "t">>}

NisabKeywords == {<<"n", "i", "s", "a", "b">>}

detectZakatIntent(message) ==
    LET msg == ToLowerCase(message)
    IN  IF IncludesAny(msg, FilteredKeywords) THEN Null
        ELSE IF IncludesAny(msg, IncomeKeywords) THEN "income_menu"
        ELSE IF IncludesAny(msg, SavingsKeywords) THEN "savings"
        ELSE IF IncludesAny(msg, PadiKeywords) THEN "padi"
        ELSE IF IncludesAny(msg, SahamKeywords) THEN "saham"
        ELSE IF IncludesAny(msg, PerakKeywords) THEN "perak"
        ELSE IF IncludesAny(msg, KwspKeywords) THEN "kwsp"
        ELSE IF IncludesAny(msg, MenuKeywords) /\ ~state.active THEN "menu"
        ELSE IF IncludesAny(msg, NisabKeywords) /\ ~state.active THEN "nisab"
        ELSE Null

(***************************************************************************)
(* Start-flow intents                                                      *)
(***************************************************************************)
\* startZakatCalculation(type): a menu or method button, or the intent signal
StartFlow(type) ==
    /\ budget.events > 0 /\ budget.starts > 0
    /\ budget' = [budget EXCEPT !.events = @ - 1, !.starts = @ - 1]
    /\ state' = startZakatCalculation(type)
    /\ tasks' = Append(tasks, Task("showYearType", DelayPrompt, NoArg))
    /\ fetches' = Orphaned(fetches, "replaced")
    /\ hist' = Created(hist, "start")
    /\ UNCHANGED <<rstate, dom>>

\* showNisabYearSelection(): the nisab button of the menu
StartNisab ==
    /\ budget.events > 0 /\ budget.starts > 0
    /\ budget' = [budget EXCEPT !.events = @ - 1, !.starts = @ - 1]
    /\ state' = showNisabYearSelection
    /\ tasks' = Append(tasks, Task("showYearType", DelayNisabPrompt, NoArg))
    /\ fetches' = Orphaned(fetches, "replaced")
    /\ hist' = Created(hist, "start")
    /\ UNCHANGED <<rstate, dom>>

(***************************************************************************)
(* Calendar system and year choice.  dom holds the prompts whose buttons   *)
(* are still enabled, oldest first; a prompt leaves it when a click        *)
(* disables its buttons.  Cancel buttons, the menu and the method menu     *)
(* only call cancel(), startZakatCalculation and showNisabYearSelection,   *)
(* which are the intents above.                                            *)
(***************************************************************************)
Group(kind, years) == [kind |-> kind, years |-> years]

\* the prompts of a kind rendered at or after g: every attach call re-selects all
\* buttons of the document, so the buttons of g got one listener for each of them
Listeners(g, kind) == Cardinality({h \in g..Len(dom) : dom[h].kind = kind})

\* the listener attached last captured every button of the kind: all are disabled
DisableAll(kind) == SelectSeq(dom, LAMBDA grp : grp.kind # kind)

\* showYearTypeSelection(): throws on config.prompts when no variant is set
ShowYearTypeSelection(i) ==
    /\ Due(i, "showYearType")
    /\ tasks' = Without(tasks, i)
    /\ dom' = IF state.type = Null THEN dom ELSE Append(dom, Group("yt", <<>>))
    /\ hist' = Ev(hist, IF state.type = Null THEN "threw" ELSE "yearTypePrompt")
    /\ UNCHANGED <<state, rstate, fetches, budget>>

YearsRequest(yearType) == [k |-> "years", yearType |-> yearType, own |-> "current"]

\* click on a year-type button of prompt g: attachYearTypeListeners, then the
\* synchronous part of fetchAndShowYears, once per listener
ClickYearType(g, yearType) ==
    /\ g \in DOMAIN dom /\ dom[g].kind = "yt"
    /\ dom' = DisableAll("yt")
    /\ state' = [state EXCEPT !.yearType = yearType]
    /\ fetches' = fetches \o Copies(YearsRequest(yearType), Listeners(g, "yt"))
    /\ hist' = [Ev(hist, "yearTypeChoice") EXCEPT !.chosenYT = yearType]
    /\ UNCHANGED <<rstate, tasks, budget>>

\* what the calendar service may answer: failure (or an unreachable service, or a
\* reply without a list), an empty list, a list longer than the cap
ServiceYears(yearType) ==
    IF yearType = "H" THEN <<"1448", "1447", "1446", "1445", "1444", "1443">>
    ELSE <<"2025", "2024", "2023", "2022", "2021", "2020">>

YearReplies(yearType) ==
    {[success |-> FALSE, years |-> <<>>],
     [success |-> TRUE, years |-> <<>>],
     [success |-> TRUE, years |-> ServiceYears(yearType)]}

\* the catch branch of fetchAndShowYears
defaultYears(yearType) ==
    IF yearType = "H" THEN <<"1448", "1447", "1446", "1445">>
    ELSE <<"2025", "2024", "2023", "2022">>

\* the list showYearSelection renders: years.slice(0, 5), or its own fallback
displayYearsUncapped(years, yearType) ==
    IF years = <<>>
    THEN (IF yearType = "H" THEN <<"1448", "1447", "1446">>
          ELSE <<"2025", "2024", "2023">>)
    ELSE years
displayYears(years, yearType) ==
    IF years = <<>>
    THEN (IF yearType = "H" THEN <<"1448", "1447", "1446">>
          ELSE <<"2025", "2024", "2023">>)
    ELSE SubSeq(years, 1, IF Len(years) < 5 THEN Len(years) ELSE 5)

\* fetchAndShowYears after the await: the reply of request i arrives; `notice`
\* records whether the informational notice was appended to the transcript
YearsResponse(i, reply) ==
    /\ i \in DOMAIN fetches /\ fetches[i].k = "years"
    /\ reply \in YearReplies(fetches[i].yearType)
    /\ fetches' = Without(fetches, i)
    /\ LET late == fetches[i].own = "cancelled"
           yearType == fetches[i].yearType
       IN  /\ IF reply.success
              THEN /\ state' = [state EXCEPT !.availableYears = reply.years]
                   /\ tasks' = Append(tasks, Task("showYears", DelayPrompt,
                          [years |-> reply.years, yearType |-> yearType, late |-> late,
                           notice |-> FALSE]))
              ELSE /\ state' = state
                   /\ tasks' = Append(tasks, Task("showYears", DelayFallbackYears,
                          [years |-> defaultYears(yearType), yearType |-> yearType,
                           late |-> late, notice |-> TRUE]))
           /\ hist' = [Ev(hist, IF reply.success THEN "yearsReply" ELSE "yearsFallback")
                          EXCEPT !.late = late]
    /\ UNCHANGED <<rstate, dom, budget>>

\* showYearSelection(years, yearType): throws on config.prompts when no variant is set
ShowYearSelection(i) ==
    /\ Due(i, "showYears")
    /\ tasks' = Without(tasks, i)
    /\ dom' = IF state.type = Null THEN dom
              ELSE Append(dom, Group("years",
                                     displayYears(tasks[i].a.years, tasks[i].a.yearType)))
    /\ hist' = [Ev(hist, IF state.type = Null THEN "threw" ELSE "yearList")
                   EXCEPT !.late = tasks[i].a.late]
    /\ UNCHANGED <<state, rstate, fetches, budget>>

\* the year button the model's user presses: the first of a list
YearPicks == {1}

\* the Session after the listener of a year button ran: the nisab inquiry keeps its
\* step, every other variant moves to its first field
yearChosenKeepsNisabOut(st, year) == [st EXCEPT !.year = year, !.step = 2]
yearChosen(st, year) ==
    IF st.type = "nisab" THEN [st EXCEPT !.year = year]
    ELSE [st EXCEPT !.year = year, !.step = 2]

\* click on a year button of list g: attachYearListeners, once per listener.  The
\* timer of askNextQuestion only appends the prompt of the current step to the
\* transcript, which is not part of the state: it is not kept in tasks.
ClickYear(g, n) ==
    /\ g \in DOMAIN dom /\ dom[g].kind = "years"
    /\ n \in YearPicks /\ n <= Len(dom[g].years)
    /\ dom' = DisableAll("years")
    /\ state' = yearChosen(state, dom[g].years[n])
    /\ tasks' = IF state.type = "nisab"
                THEN tasks \o Copies(Task("fetchNisab", DelayPrompt, NoArg),
                                     Listeners(g, "years"))
                ELSE tasks
    /\ hist' = [Ev(hist, "yearChoice") EXCEPT !.chosenY = dom[g].years[n]]
    /\ UNCHANGED <<rstate, fetches, budget>>

(***************************************************************************)
(* Nisab inquiry                                                           *)
(***************************************************************************)
NisabRequest ==
    [k |-> "nisab", year |-> state.year, yearType |-> state.yearType, own |-> "current"]

\* fetchNisabInfo() up to the await; without a year and a year type it restarts
\* the nisab inquiry
FetchNisabInfo(i) ==
    /\ Due(i, "fetchNisab")
    /\ IF state.year # Null /\ state.yearType # Null
       THEN /\ fetches' = Append(fetches, NisabRequest)
            /\ tasks' = Without(tasks, i)
            /\ state' = state
            /\ hist' = Ev(hist, "nisabRequest")
       ELSE /\ fetches' = Orphaned(fetches, "replaced")
            /\ tasks' = Append(Without(tasks, i),
                               Task("showYearType", DelayNisabPrompt, NoArg))
            /\ state' = showNisabYearSelection
            /\ hist' = Created(hist, "nisabRestart")
    /\ UNCHANGED <<rstate, dom, budget>>

\* fetchNisabInfo() after the await
NisabResponse(i, success) ==
    /\ i \in DOMAIN fetches /\ fetches[i].k = "nisab"
    /\ IF success
       THEN /\ tasks' = Append(tasks, Task("nisabShow", DelayPrompt, NoArg))
            /\ fetches' = Without(fetches, i)
            /\ state' = state
            /\ hist' = Ev(hist, "nisabReply")
       ELSE /\ tasks' = tasks
            /\ fetches' = Orphaned(Without(fetches, i), "replaced")
            /\ state' = resetState
            /\ hist' = Torn(hist, "nisabError")
    /\ UNCHANGED <<rstate, dom, budget>>

\* the timer of the success branch: presents the reply, then resetState()
NisabShow(i) ==
    /\ Due(i, "nisabShow")
    /\ tasks' = Without(tasks, i)
    /\ fetches' = Orphaned(fetches, "replaced")
    /\ state' = resetState
    /\ hist' = Torn(hist, "nisabShown")
    /\ UNCHANGED <<rstate, dom, budget>>

(***************************************************************************)
(* Reminder sub-flow: the rules of ReminderHandler.processInput            *)
(***************************************************************************)
MinNameLength == 3
IcDigits == 12

AllDigits(s) == \A i \in DOMAIN s : s[i] \in Digits

isCancelKeyword(text) ==
    \/ Includes(ToLowerCase(text), <<"b", "a", "t", "a", "l">>)
    \/ Includes(ToLowerCase(text), <<"c", "a", "n", "c", "e", "l">>)

nameAccepted(text) == Len(text) >= MinNameLength

cleanICSpacesOnly(text) == Remove(text, {" "})
cleanIC(text) == Remove(text, {"-", " "})

icAccepted(clean) == Len(clean) = IcDigits /\ AllDigits(clean)

normalizePhoneLocalOnly(text) == Remove(text, {" ", "-"})
normalizePhone(text) ==
    LET phone == Remove(text, {" ", "-"})
    IN  IF StartsWith(phone, <<"+", "6", "0">>) THEN <<"0">> \o Drop(phone, 3)
        ELSE IF StartsWith(phone, <<"6", "0">>) /\ Len(phone) >= 11
             THEN <<"0">> \o Drop(phone, 2)
        ELSE phone

phoneAccepted(phone) ==
    /\ phone # <<>> /\ Head(phone) = "0"
    /\ AllDigits(Tail(phone))
    /\ Len(phone) - 1 \in {9, 10}

\* the request submitReminder sends
SaveRequest(data) ==
    [k |-> "save", own |-> "reminder",
     body |-> [name |-> data.name, ic_number |-> data.ic_number,
               phone |-> data.phone, zakat_type |-> data.zakat_type,
               zakat_amount |-> data.zakat_amount]]

Effect(rs, newTasks, newFetches, ev) ==
    [rs |-> rs, tasks |-> newTasks, fetches |-> newFetches, ev |-> ev]

\* the ReminderSession after a rejected answer
rejectForgetsAmount(rs) == [rs EXCEPT !.data.zakat_amount = NoValue]
reminderReject(rs) == rs

\* the guard of processInput: the message is not for the sub-flow (return false)
notWaitingWhenInactive(rs) == ~rs.active
notWaiting(rs) == ~rs.active \/ rs.waitingFor = Null

\* ReminderHandler.processInput(message), with submitReminder() up to its await
reminderProcessInput(message) ==
    LET text == Trim(message)
        field == rstate.waitingFor
        ic == cleanIC(text)
        phone == normalizePhone(text)
        withPhone == [rstate EXCEPT !.data.phone = phone, !.waitingFor = Null]
    IN  IF notWaiting(rstate)
        THEN Effect(rstate, <<>>, <<>>, "reminderIgnored")
        ELSE IF isCancelKeyword(text)
        THEN Effect(ReminderIdle, <<>>, <<>>, "reminderCancel")
        ELSE IF text = <<>>
        THEN Effect(reminderReject(rstate), <<>>, <<>>, "reminderReject")
        ELSE IF field = "name"
        THEN (IF ~nameAccepted(text)
              THEN Effect(reminderReject(rstate), <<>>, <<>>, "reminderReject")
              ELSE Effect([rstate EXCEPT !.data.name = text, !.waitingFor = Null],
                          <<Task("askIC", DelayReminder, NoArg)>>, <<>>, "nameAccepted"))
        ELSE IF field = "ic"
        THEN (IF ~icAccepted(ic)
              THEN Effect(reminderReject(rstate), <<>>, <<>>, "reminderReject")
              ELSE Effect([rstate EXCEPT !.data.ic_number = ic, !.waitingFor = Null],
                          <<Task("askPhone", DelayReminder, NoArg)>>, <<>>, "icAccepted"))
        ELSE (IF ~phoneAccepted(phone)
              THEN Effect(reminderReject(rstate), <<>>, <<>>, "reminderReject")
              ELSE Effect(withPhone, <<>>, <<SaveRequest(withPhone.data)>>,
                          "phoneAccepted"))

(***************************************************************************)
(* Orchestrator: free text and the computation request                     *)
(***************************************************************************)
\* x || 0 on a collected value: 0 for a missing value and for zero
OrZero(data, key) ==
    IF key \in DOMAIN data /\ ~IsZero(data[key]) THEN data[key] ELSE Zero

Get(data, key) == IF key \in DOMAIN data THEN data[key] ELSE [k |-> Undefined]

\* the payload calculateZakat builds for a Session
payloadOf(st) ==
    CASE st.type = "income_kaedah_a" ->
           [type |-> st.type, year |-> st.year, year_type |-> st.yearType,
            fields |-> [gross_income |-> Get(st.data, "amount")]]
      [] st.type = "income_kaedah_b" ->
           [type |-> st.type, year |-> st.year, year_type |-> st.yearType,
            fields |-> [annual_income |-> Get(st.data, "amount"),
                        annual_expenses |-> Get(st.data, "expenses")]]
      [] st.type = "savings" ->
           [type |-> st.type, year |-> st.year, year_type |-> st.yearType,
            fields |-> [savings_amount |-> Get(st.data, "amount")]]
      [] st.type = "padi" ->
           [type |-> Undefined, year |-> st.year, year_type |-> st.yearType,
            fields |-> [jumlah_rm |-> OrZero(st.data, "jumlah_hasil_rm")]]
      [] st.type = "saham" ->
           [type |-> Undefined, year |-> st.year, year_type |-> st.yearType,
            fields |-> [nilai_portfolio |-> Get(st.data, "nilai_portfolio"),
                        hutang_saham |-> OrZero(st.data, "hutang_saham")]]
      [] st.type = "perak" ->
           [type |-> Undefined, year |-> st.year, year_type |-> st.yearType,
            fields |-> [berat_perak_g |-> Get(st.data, "berat_perak_g"),
                        harga_per_gram |-> Get(st.data, "harga_per_gram")]]
      [] st.type = "kwsp" ->
           [type |-> Undefined, year |-> st.year, year_type |-> st.yearType,
            fields |-> [jumlah_akaun_1 |-> Get(st.data, "jumlah_akaun_1"),
                        jumlah_akaun_2 |-> Get(st.data, "jumlah_akaun_2"),
                        jumlah_pengeluaran |-> OrZero(st.data, "jumlah_pengeluaran")]]

apiEndpoint(type) ==
    IF type \in {"padi", "saham", "perak", "kwsp"} THEN "zakat-calculator"
    ELSE "calculate-zakat"

\* the request calculateZakat sends for Session st; own, stype and the chosen
\* values are bookkeeping of the model, not part of the request
CalcRequest(st) ==
    [k |-> "calc", payload |-> payloadOf(st), endpoint |-> apiEndpoint(st.type),
     own |-> "current", stype |-> st.type,
     chosenYT |-> hist.chosenYT, chosenY |-> hist.chosenY]

\* the Session after an accepted answer: state.data[currentStepName] = value; step++
acceptInPlace(st, stepName, value) == [st EXCEPT !.data = Put(st.data, stepName, value)]
accept(st, stepName, value) ==
    [st EXCEPT !.data = Put(st.data, stepName, value), !.step = st.step + 1]

\* the Session after a rejected answer
rejectAdvances(st) == [st EXCEPT !.step = st.step + 1]
reject(st) == st

\* ZakatHandler.processInput(message), with calculateZakat() up to its await
ProcessInput(message) ==
    /\ IF isActive THEN budget.reminder > 0 ELSE budget.events > 0
    /\ budget' = IF isActive THEN [budget EXCEPT !.reminder = @ - 1]
                 ELSE [budget EXCEPT !.events = @ - 1]
    /\ dom' = dom
    /\ IF isActive
       THEN LET e == reminderProcessInput(message)
            IN  /\ rstate' = e.rs
                /\ tasks' = tasks \o e.tasks
                /\ fetches' = fetches \o e.fetches
                /\ hist' = [Ev(hist, e.ev) EXCEPT !.saves = @ + Len(e.fetches)]
                /\ state' = state
       ELSE IF ~state.active
       THEN /\ hist' = Ev(hist, "ignored")
            /\ UNCHANGED <<state, rstate, tasks, fetches>>
       ELSE IF state.step < 2
       THEN /\ hist' = Ev(hist, "useButtons")
            /\ UNCHANGED <<state, rstate, tasks, fetches>>
       ELSE LET currentStepName == StepName(state.type, state.step)
                value == validateInput(message, currentStepName)
                next == accept(state, currentStepName, value)
            IN  IF value = NoValue
                THEN /\ state' = reject(state)
                     /\ hist' = [Ev(hist, "reject") EXCEPT !.blank = stripped(message) = <<>>]
                     /\ UNCHANGED <<rstate, tasks, fetches>>
                ELSE IF next.step >= Len(zakatTypes[state.type])
                        /\ next.type \notin Variants
                THEN \* calculateZakat throws on the unknown type: notice, resetState()
                     /\ state' = resetState
                     /\ fetches' = Orphaned(fetches, "replaced")
                     /\ hist' = Torn(hist, "calcError")
                     /\ UNCHANGED <<rstate, tasks>>
                ELSE IF next.step >= Len(zakatTypes[state.type])
                THEN /\ state' = next
                     /\ fetches' = Append(fetches, CalcRequest(next))
                     /\ hist' = [Ev(hist, "calcRequest")
                                    EXCEPT !.sessCalcs = hist.sessCalcs + 1,
                                           !.blank = stripped(message) = <<>>]
                     /\ UNCHANGED <<rstate, tasks>>
                ELSE /\ state' = next
                     /\ hist' = [Ev(hist, "accept") EXCEPT !.blank = stripped(message) = <<>>]
                     /\ UNCHANGED <<rstate, tasks, fetches>>

(***************************************************************************)
(* Computation result and hand-off                                         *)
(***************************************************************************)
\* what the computation service may answer: no reply (unreachable), a failure,
\* or a success whose data may name the type of the request
CalcReplies(f) ==
    {[success |-> FALSE, reached |-> r, reaches_nisab |-> FALSE, zakat_amount |-> 0,
      type |-> Null] : r \in BOOLEAN}
    \cup
    {[success |-> TRUE, reached |-> TRUE, reaches_nisab |-> n, zakat_amount |-> a,
      type |-> Null] : n \in BOOLEAN, a \in {0, 3000}}
    \cup
    {[success |-> TRUE, reached |-> TRUE, reaches_nisab |-> TRUE, zakat_amount |-> 3000,
      type |-> t] : t \in {f.payload.type} \ {Undefined}}

\* the test of calculateZakat and createActionButtons on data.data
qualifiesOnThreshold(data) == data.reaches_nisab
qualifies(data) == data.reaches_nisab /\ data.zakat_amount > 0

\* the hand-off condition as specified: success, threshold met, amount > 0
HandOffDue(reply) == reply.success /\ reply.reaches_nisab /\ reply.zakat_amount > 0

\* what the timers of the success branch capture; zakatType, year and yearType
\* are read by the hand-off only
Captured(f, reply) ==
    LET handOff == qualifies(reply)
    IN  [data |-> reply,
         zakatType |-> IF ~handOff THEN Null
                       ELSE IF reply.type # Null THEN reply.type ELSE state.type,
         year |-> IF handOff THEN state.year ELSE Null,
         yearType |-> IF handOff THEN state.yearType ELSE Null,
         stype |-> f.stype, late |-> f.own = "cancelled"]

\* the flag the finally block of calculateZakat tests: it stays true unless a
\* success qualifies for the hand-off
resetUnlessThreshold(reply) == ~reply.reaches_nisab
resetOnSuccessOnly(reply) == reply.success /\ ~qualifies(reply)
shouldResetState(reply) == ~(reply.success /\ qualifies(reply))

\* calculateZakat() after the await, with its finally block
CalcResponse(i, reply) ==
    /\ i \in DOMAIN fetches /\ fetches[i].k = "calc"
    /\ reply \in CalcReplies(fetches[i])
    /\ LET ev == IF reply.success THEN "calcReply" ELSE "calcFailed"
           h == [(IF shouldResetState(reply) THEN Torn(hist, ev) ELSE Ev(hist, ev))
                    EXCEPT !.late = fetches[i].own = "cancelled",
                           !.qual = HandOffDue(reply),
                           !.owed = hist.owed + (IF HandOffDue(reply) THEN 1 ELSE 0)]
       IN  /\ tasks' = IF reply.success
                       THEN Append(tasks, Task("displayResult", DelayResult,
                                               Captured(fetches[i], reply)))
                       ELSE tasks
           /\ state' = IF shouldResetState(reply) THEN resetState ELSE state
           /\ fetches' = IF shouldResetState(reply)
                         THEN Orphaned(Without(fetches, i), "replaced")
                         ELSE Without(fetches, i)
           /\ hist' = h
    /\ UNCHANGED <<rstate, dom, budget>>

\* the timer of the success branch: displayResult, then the hand-off timer
DisplayResult(i) ==
    /\ Due(i, "displayResult")
    /\ tasks' = IF qualifies(tasks[i].a.data)
                THEN Append(Without(tasks, i), Task("offerReminder", DelayOffer, tasks[i].a))
                ELSE Without(tasks, i)
    /\ hist' = [Ev(hist, "result") EXCEPT !.late = tasks[i].a.late,
                                          !.qual = HandOffDue(tasks[i].a.data)]
    /\ UNCHANGED <<state, rstate, fetches, dom, budget>>

zakatTypeMap(type) ==
    IF type \in {"income_kaedah_a", "income_kaedah_b"} THEN "pendapatan"
    ELSE IF type = "savings" THEN "simpanan" ELSE type

validZakatTypes ==
    {"pendapatan", "simpanan", "padi", "saham", "perak", "kwsp",
     "income_kaedah_a", "income_kaedah_b", "savings", "umum"}

\* the obligation-type label offerReminder hands over
reminderLabel(zakatTypeFromState) ==
    LET stateType == IF zakatTypeFromState # Null THEN zakatTypeFromState ELSE state.type
        zakatType == zakatTypeMap(stateType)
    IN  IF zakatType \in validZakatTypes THEN zakatType ELSE "pendapatan"

\* offerReminder(data, zakatType, year, yearType): startReminderFlow and the
\* deferred resetState()
OfferReminder(i) ==
    /\ Due(i, "offerReminder")
    /\ rstate' = startReminderFlow(reminderLabel(tasks[i].a.zakatType),
                                   Amount(tasks[i].a.data.zakat_amount))
    /\ tasks' = Without(tasks, i)
                   \o <<Task("showPermission", DelayReminder, NoArg),
                        Task("teardown", DelayTeardown, NoArg)>>
    /\ hist' = [Ev(hist, "handOff") EXCEPT !.late = tasks[i].a.late,
                                           !.qual = HandOffDue(tasks[i].a.data),
                                           !.owed = hist.owed - 1,
                                           !.answer = Null, !.saves = 0]
    /\ UNCHANGED <<state, fetches, dom, budget>>

\* the deferred resetState() of offerReminder
Teardown(i) ==
    /\ Due(i, "teardown")
    /\ tasks' = Without(tasks, i)
    /\ fetches' = Orphaned(fetches, "replaced")
    /\ state' = resetState
    /\ hist' = Torn(hist, "teardown")
    /\ UNCHANGED <<rstate, dom, budget>>

\* ZakatHandler.cancel(): resets an active Session
Cancel ==
    /\ budget.events > 0 /\ budget.cancels > 0
    /\ budget' = [budget EXCEPT !.events = @ - 1, !.cancels = @ - 1]
    /\ IF state.active
       THEN /\ state' = resetState
            /\ fetches' = Orphaned(fetches, "cancelled")
            /\ hist' = Torn(hist, "cancel")
       ELSE /\ hist' = Ev(hist, "cancelIdle")
            /\ UNCHANGED <<state, fetches>>
    /\ UNCHANGED <<rstate, tasks, dom>>

(***************************************************************************)
(* Reminder sub-flow: consent, prompts and the save request                *)
(***************************************************************************)
ShowPermissionPrompt(i) ==
    /\ Due(i, "showPermission")
    /\ tasks' = Without(tasks, i)
    /\ dom' = Append(dom, Group("rem", <<>>))
    /\ hist' = Ev(hist, "offer")
    /\ UNCHANGED <<state, rstate, fetches, budget>>

\* click on a consent button of offer g (attachPermissionListeners attaches one
\* listener per button; it disables the buttons rendered up to that offer)
ClickPermission(g, answer) ==
    /\ g \in DOMAIN dom /\ dom[g].kind = "rem"
    /\ dom' = SelectSeq([h \in DOMAIN dom |->
                            IF h <= g /\ dom[h].kind = "rem" THEN Group("off", <<>>)
                            ELSE dom[h]],
                        LAMBDA grp : grp.kind # "off")
    /\ tasks' = Append(tasks, Task(IF answer = "yes" THEN "askName" ELSE "decline",
                                   DelayReminder, NoArg))
    /\ hist' = [Ev(hist, IF answer = "yes" THEN "consent" ELSE "declineClick")
                   EXCEPT !.answer = IF hist.answer = "no" THEN "no" ELSE answer]
    /\ UNCHANGED <<state, rstate, fetches, budget>>

\* askName / askIC / askPhone
AskField(i, kind, field) ==
    /\ Due(i, kind)
    /\ tasks' = Without(tasks, i)
    /\ rstate' = [rstate EXCEPT !.waitingFor = field]
    /\ hist' = Ev(hist, kind)
    /\ UNCHANGED <<state, fetches, dom, budget>>

AskName(i) == AskField(i, "askName", "name")
AskIC(i) == AskField(i, "askIC", "ic")
AskPhone(i) == AskField(i, "askPhone", "phone")

\* the timer of the decline branch: closing notice, resetState()
Decline(i) ==
    /\ Due(i, "decline")
    /\ tasks' = Without(tasks, i)
    /\ rstate' = ReminderIdle
    /\ hist' = Ev(hist, "declined")
    /\ UNCHANGED <<state, fetches, dom, budget>>

SaveReplies == {"saved", "refused", "unreachable"}

RECURSIVE FirstToken(_)
\* text.split(' ')[0]
FirstToken(text) ==
    IF text = <<>> \/ Head(text) = " " THEN <<>>
    ELSE <<Head(text)>> \o FirstToken(Tail(text))

TextPengguna == <<"P", "e", "n", "g", "g", "u", "n", "a">>

\* (name || '').split(' ')[0] || 'Pengguna' in the confirmation of submitReminder
firstName(name) ==
    LET token == IF name = NullText THEN <<>> ELSE FirstToken(name)
    IN  IF token = <<>> THEN TextPengguna ELSE token

\* submitReminder() after the await
SaveResponse(i, reply) ==
    /\ i \in DOMAIN fetches /\ fetches[i].k = "save"
    /\ reply \in SaveReplies
    /\ fetches' = Without(fetches, i)
    /\ IF reply = "unreachable"
       THEN /\ rstate' = ReminderIdle
            /\ tasks' = tasks
       ELSE /\ rstate' = rstate
            /\ tasks' = Append(tasks, Task("saveDone", DelaySaved,
                                           [success |-> reply = "saved",
                                            sent |-> fetches[i].body]))
    /\ hist' = Ev(hist, IF reply = "unreachable" THEN "saveError" ELSE "saveReply")
    /\ UNCHANGED <<state, dom, budget>>

\* the timer of submitReminder: confirmation or error notice, resetState();
\* `sent` is bookkeeping of the model: the body of the request that was answered
SaveDone(i) ==
    /\ Due(i, "saveDone")
    /\ tasks' = Without(tasks, i)
    /\ rstate' = ReminderIdle
    /\ hist' = IF tasks[i].a.success
               THEN [Ev(hist, "saved") EXCEPT !.greeting = firstName(rstate.data.name)]
               ELSE Ev(hist, "saveRefused")
    /\ UNCHANGED <<state, fetches, dom, budget>>

(***************************************************************************)
(* The model's user                                                        *)
(***************************************************************************)
\* the variants the user starts
StartTypes == {"savings", "saham"}

Text5000 == <<"5", "0", "0", "0">>
TextMinus5 == <<"-", "5">>
TextName == <<"A", "l", "i", " ", "A", "b", "u">>
TextA == <<"A">>
TextIC == <<"9", "5", "0", "1", "0", "1", "-", "0", "1", "-", "5", "6", "7", "8">>
TextShortIC == <<"9", "5", "0", "1">>
TextPhone == <<"+", "6", "0", "1", "2", "3", "4", "5", "6", "7", "8", "9">>
TextShortPhone == <<"0", "1", "2", "3">>
TextBatal == <<"b", "a", "t", "a", "l">>

\* what the user types: an answer to the question asked, a malformed one, nothing,
\* or the cancel keyword
Messages ==
    IF ~isActive THEN {Text5000, TextMinus5, TextName, <<>>}
    ELSE IF rstate.waitingFor = "ic" THEN {TextIC, TextShortIC, <<>>, TextBatal}
    ELSE IF rstate.waitingFor = "phone" THEN {TextPhone, TextShortPhone, <<>>, TextBatal}
    ELSE {TextName, TextA, <<>>, TextBatal}

\* texts that are empty after stripping
BlankTexts == {<<>>, <<" ">>, <<"R", "M">>, <<"r", "m", " ", ",">>}

\* every text the model's user types in the reminder sub-flow
ReminderTexts ==
    {TextName, TextA, TextIC, TextShortIC, TextPhone, TextShortPhone, <<>>, TextBatal}

(***************************************************************************)
(* Next-state relation                                                     *)
(***************************************************************************)
\* what the user does: start-flow intents, cancel, free text, button clicks
UserStep ==
    \/ \E type \in StartTypes : StartFlow(type)
    \/ StartNisab
    \/ Cancel
    \/ \E message \in Messages : ProcessInput(message)
    \/ \E g \in DOMAIN dom, yearType \in {"H", "M"} : ClickYearType(g, yearType)
    \/ \E g \in DOMAIN dom, n \in YearPicks : ClickYear(g, n)
    \/ \E g \in DOMAIN dom, answer \in {"yes", "no"} : ClickPermission(g, answer)

\* what happens without the user: a service answers, a timer fires
SystemStep ==
    \/ \E i \in DOMAIN fetches :
          \E reply \in YearReplies("H") \cup YearReplies("M") : YearsResponse(i, reply)
    \/ \E i \in DOMAIN fetches, success \in BOOLEAN : NisabResponse(i, success)
    \/ \E i \in DOMAIN fetches :
          \E reply \in (IF fetches[i].k = "calc" THEN CalcReplies(fetches[i]) ELSE {}) :
             CalcResponse(i, reply)
    \/ \E i \in DOMAIN fetches, reply \in SaveReplies : SaveResponse(i, reply)
    \/ \E i \in DOMAIN tasks : ShowYearTypeSelection(i)
    \/ \E i \in DOMAIN tasks : ShowYearSelection(i)
    \/ \E i \in DOMAIN tasks : FetchNisabInfo(i)
    \/ \E i \in DOMAIN tasks : NisabShow(i)
    \/ \E i \in DOMAIN tasks : DisplayResult(i)
    \/ \E i \in DOMAIN tasks : OfferReminder(i)
    \/ \E i \in DOMAIN tasks : Teardown(i)
    \/ \E i \in DOMAIN tasks : ShowPermissionPrompt(i)
    \/ \E i \in DOMAIN tasks : AskName(i)
    \/ \E i \in DOMAIN tasks : AskIC(i)
    \/ \E i \in DOMAIN tasks : AskPhone(i)
    \/ \E i \in DOMAIN tasks : Decline(i)
    \/ \E i \in DOMAIN tasks : SaveDone(i)

Next == UserStep \/ SystemStep

Spec == Init /\ [][Next]_vars

\* every request is answered (or fails) and every timer fires
FairSpec == Spec /\ WF_vars(SystemStep)

(***************************************************************************)
(* The year list on its own: a Session whose calendar-system choice was    *)
(* answered by the calendar service with any list of up to MaxYears        *)
(* entries, or not answered at all.                                        *)
(***************************************************************************)
YearNames == {"2025", "2024"}

ReturnedLists == UNION {[1..n -> YearNames] : n \in 0..MaxYears}

\* the timer fetchAndShowYears sets for a reply
YearsTask(reply, yearType) ==
    IF reply.success
    THEN Task("showYears", DelayPrompt,
              [years |-> reply.years, yearType |-> yearType, late |-> FALSE,
               notice |-> FALSE])
    ELSE Task("showYears", DelayFallbackYears,
              [years |-> defaultYears(yearType), yearType |-> yearType, late |-> FALSE,
               notice |-> TRUE])

InitYearList ==
    \E type \in StartTypes, yearType \in {"H", "M"} :
      \E reply \in {[success |-> TRUE, years |-> l] : l \in ReturnedLists}
                    \cup {[success |-> FALSE, years |-> <<>>]} :
        /\ state = [startZakatCalculation(type) EXCEPT
                        !.yearType = yearType,
                        !.availableYears = IF reply.success THEN reply.years ELSE <<>>]
        /\ rstate = ReminderIdle
        /\ tasks = <<YearsTask(reply, yearType)>>
        /\ fetches = <<>>
        /\ dom = <<>>
        /\ hist = [Ev(HistInit, IF reply.success THEN "yearsReply" ELSE "yearsFallback")
                      EXCEPT !.chosenYT = yearType]
        /\ budget = [events |-> 0, starts |-> 0, cancels |-> 0, reminder |-> 0]

NextYearList ==
    \/ \E i \in DOMAIN tasks : ShowYearSelection(i)
    \/ \E g \in DOMAIN dom, n \in YearPicks : ClickYear(g, n)

YearListSpec == InitYearList /\ [][NextYearList]_vars

(***************************************************************************)
(* Specification of the phone question: the ReminderSession awaits the     *)
(* phone number and the user types one text built from a prefix, a run of  *)
(* digits and a decoration.                                                *)
(***************************************************************************)
MaxPhoneDigits == 11

PhonePrefixes == {<<>>, <<"0">>, <<"+", "6", "0">>, <<"6", "0">>, <<"+", "6">>, <<"6">>}
Decorations == {"plain", "spaced", "hyphened", "lettered"}

MaxVaried == 7

\* digit runs of every length up to maxLen that do not begin with 0, so the prefix
\* alone decides the leading form; the first MaxVaried digits vary
DigitRuns(maxLen) ==
    UNION {{[i \in 1..n |-> IF i <= Len(v) THEN v[i] ELSE "3"] :
                v \in [1..(IF n < MaxVaried THEN n ELSE MaxVaried) -> {"1", "2"}]} :
           n \in 0..maxLen}

Decorated(prefix, body, deco) ==
    LET half == Len(body) \div 2
    IN  CASE deco = "plain" -> prefix \o body
          [] deco = "spaced" -> <<" ">> \o prefix \o <<" ">> \o body \o <<" ">>
          [] deco = "hyphened" ->
                prefix \o <<"-">> \o SubSeq(body, 1, half) \o <<"-", " ">>
                       \o SubSeq(body, half + 1, Len(body))
          [] OTHER -> prefix \o body \o <<"a">>

PhoneCases == [prefix : PhonePrefixes, body : DigitRuns(MaxPhoneDigits), deco : Decorations]

PhoneInputs == {Decorated(c.prefix, c.body, c.deco) : c \in PhoneCases} \cup {TextPhone}

\* the ReminderSession after consent, an accepted name and identity number, and
\* the askPhone timer
AwaitingField(field) ==
    LET started == startReminderFlow("simpanan", Amount(3000))
    IN  [started EXCEPT !.waitingFor = field,
                        !.data.name = TextName,
                        !.data.ic_number = IF field = "phone" THEN cleanIC(TextIC)
                                           ELSE NullText]

InitField(field) ==
    /\ state = IdleState
    /\ rstate = AwaitingField(field)
    /\ tasks = <<>>
    /\ fetches = <<>>
    /\ dom = <<>>
    /\ hist = [Ev(HistInit, IF field = "phone" THEN "askPhone" ELSE "askIC")
                  EXCEPT !.answer = "yes"]
    /\ budget = [events |-> 0, starts |-> 0, cancels |-> 0, reminder |-> 1]

InitPhone == InitField("phone")

\* the user answers the question asked, once
Answers(field, inputs) == IF rstate.waitingFor = field THEN inputs ELSE {}

NextPhone == \E message \in Answers("phone", PhoneInputs) : ProcessInput(message)

PhoneSpec == InitPhone /\ [][NextPhone]_vars

(***************************************************************************)
(* Specification of the identity-number question                           *)
(***************************************************************************)
MaxIcDigits == 13

IcCases == [prefix : {<<>>}, body : DigitRuns(MaxIcDigits), deco : Decorations]

IcInputs == {Decorated(c.prefix, c.body, c.deco) : c \in IcCases} \cup {TextIC}

InitIc == InitField("ic")

NextIc ==
    \/ \E message \in Answers("ic", IcInputs) : ProcessInput(message)
    \/ \E i \in DOMAIN tasks : AskPhone(i)

IcSpec == InitIc /\ [][NextIc]_vars

(***************************************************************************)
(* Specification of the amount question: the Session of a savings flow     *)
(* awaits its amount and the user types one text built from a currency     *)
(* marker, a sign, digits with or without separators, a fraction and a     *)
(* tail.                                                                   *)
(***************************************************************************)
MaxAmountDigits == 5

Markers == {<<>>, <<"R", "M">>, <<"r", "m", " ">>}
Signs == {<<>>, <<"-">>}
Fractions == {<<>>, <<".", "5">>}
Tails == {<<>>, <<"k">>, <<"-", "3">>}

AmountCases ==
    [marker : Markers, sign : Signs, int : DigitRuns(MaxAmountDigits),
     frac : Fractions, tail : Tails, commas : BOOLEAN]

\* a thousands separator after every digit but the last
RECURSIVE Separated(_)
Separated(digits) ==
    IF Len(digits) <= 1 THEN digits
    ELSE <<Head(digits), ",">> \o Separated(Tail(digits))

AmountText(c) ==
    c.marker \o c.sign \o (IF c.commas THEN Separated(c.int) ELSE c.int)
             \o c.frac \o c.tail

AmountInputs == {AmountText(c) : c \in AmountCases}

\* the Session after the calendar system and the year were chosen
AwaitingAmount ==
    [startZakatCalculation("savings") EXCEPT
        !.step = 2, !.yearType = "M", !.year = "2025",
        !.availableYears = <<"2025", "2024">>]

InitAmount ==
    /\ state = AwaitingAmount
    /\ rstate = ReminderIdle
    /\ tasks = <<>>
    /\ fetches = <<>>
    /\ dom = <<>>
    /\ hist = [Ev(HistInit, "yearChoice") EXCEPT !.chosenYT = "M", !.chosenY = "2025"]
    /\ budget = [events |-> 1, starts |-> 0, cancels |-> 0, reminder |-> 0]

NextAmount == \E message \in AmountInputs : ProcessInput(message)

AmountSpec == InitAmount /\ [][NextAmount]_vars

(***************************************************************************)
(* Specification of the intent signal: the user types a message, the       *)
(* caller starts the flow variant detectZakatIntent names, and the year    *)
(* resolution of that flow runs.                                           *)
(***************************************************************************)
TextZakatPadi == <<"Z", "a", "k", "a", "t", " ", "P", "a", "d", "i">>
TextKiraZakatSaham == <<"k", "i", "r", "a", " ", "z", "a", "k", "a", "t", " ", "s", "a", "h", "a", "m">>
TextZakatKwsp == <<"z", "a", "k", "a", "t", " ", "k", "w", "s", "p">>
TextZakatEpf == <<"z", "a", "k", "a", "t", " ", "e", "p", "f">>
TextZakatPerak == <<"z", "a", "k", "a", "t", " ", "p", "e", "r", "a", "k">>
TextKiraZakatPerak == <<"k", "i", "r", "a", " ", "z", "a", "k", "a", "t", " ", "p", "e", "r", "a", "k">>
TextZakatSilver == <<"z", "a", "k", "a", "t", " ", "s", "i", "l", "v", "e", "r">>
TextZakatSimpanan == <<"z", "a", "k", "a", "t", " ", "s", "i", "m", "p", "a", "n", "a", "n">>
TextKiraZakat == <<"k", "i", "r", "a", " ", "z", "a", "k", "a", "t">>
TextZakatEmas == <<"z", "a", "k", "a", "t", " ", "e", "m", "a", "s">>
TextZakatGaji == <<"z", "a", "k", "a", "t", " ", "g", "a", "j", "i">>
TextSalam == <<"s", "a", "l", "a", "m">>
TextNisab == <<"n", "i", "s", "a", "b">>

IntentMessages ==
    {TextZakatPadi, TextKiraZakatSaham, TextZakatKwsp, TextZakatEpf, TextZakatPerak, TextKiraZakatPerak,
     TextZakatSilver, TextZakatSimpanan, TextKiraZakat, TextZakatEmas, TextZakatGaji, TextSalam,
     TextNisab}

\* the caller of detectZakatIntent: a variant starts its flow, the nisab intent
\* the nisab inquiry; the menus are presentations and no intent leaves the
\* message to the FAQ
TypedIntent(message) ==
    LET intent == detectZakatIntent(message)
    IN  IF intent \in Variants THEN StartFlow(intent)
        ELSE IF intent = "nisab" THEN StartNisab
        ELSE /\ budget.events > 0
             /\ budget' = [budget EXCEPT !.events = @ - 1]
             /\ hist' = Ev(hist, IF intent = Null THEN "noIntent" ELSE "menu")
             /\ UNCHANGED <<state, rstate, tasks, fetches, dom>>

InitIntent ==
    /\ state = IdleState
    /\ rstate = ReminderIdle
    /\ tasks = <<>>
    /\ fetches = <<>>
    /\ dom = <<>>
    /\ hist = HistInit
    /\ budget = [events |-> MaxStarts, starts |-> MaxStarts, cancels |-> 0, reminder |-> 0]

NextIntent ==
    \/ \E message \in IntentMessages : TypedIntent(message)
    \/ \E i \in DOMAIN tasks : ShowYearTypeSelection(i)
    \/ \E g \in DOMAIN dom, yearType \in {"H", "M"} : ClickYearType(g, yearType)
    \/ \E i \in DOMAIN fetches :
          \E reply \in YearReplies("H") \cup YearReplies("M") : YearsResponse(i, reply)
    \/ \E i \in DOMAIN tasks : ShowYearSelection(i)
    \/ \E g \in DOMAIN dom, n \in YearPicks : ClickYear(g, n)
    \/ \E i \in DOMAIN tasks : FetchNisabInfo(i)
    \/ \E i \in DOMAIN fetches, success \in BOOLEAN : NisabResponse(i, success)
    \/ \E i \in DOMAIN tasks : NisabShow(i)

IntentSpec == InitIntent /\ [][NextIntent]_vars

(***************************************************************************)
(* Properties                                                              *)
(***************************************************************************)
\* qualifying results whose hand-off is still to come: a result waiting to be
\* displayed, or displayed and waiting for offerReminder
PendingHandOffs ==
    Cardinality({i \in DOMAIN tasks :
                    \/ tasks[i].k = "offerReminder"
                    \/ tasks[i].k = "displayResult" /\ HandOffDue(tasks[i].a.data)})

C2_LateResponseDiscarded ==
    hist.late => hist.ev \notin {"yearsReply", "yearList", "result", "handOff"}

\* C3: a cancel event on an active Session leaves it inactive with no variant, step
\* 0, no collected field, no calendar system and no year; a flow started afterwards
\* begins at step 0 with no collected field, calendar system or year.
C3_CancelClears ==
    /\ hist.ev = "cancel" => state = IdleState
    /\ hist.ev = "start" =>
          /\ state.active /\ state.step = 0 /\ state.data = EmptyData
          /\ state.yearType = Null /\ state.year = Null

\* a flow started after a flow was cancelled with a request in flight
C3_Witness ==
    /\ hist.ev = "start" /\ budget.cancels < MaxCancels
    /\ \E i \in DOMAIN fetches : fetches[i].own = "cancelled"

\* C4: a Session dispatches at most one computation request.
C4_OneComputationPerSession == hist.sessCalcs <= 1

\* C5: every request to the computation service, calculation or nisab inquiry,
\* carries a year and a calendar system that are not null; those of a calculation
\* are the ones the user chose in the Session that sent it.
C5_RequestAnchored ==
    \A i \in DOMAIN fetches :
        /\ fetches[i].k = "nisab" =>
              fetches[i].year # Null /\ fetches[i].yearType # Null
        /\ fetches[i].k = "calc" =>
              /\ fetches[i].payload.year # Null
              /\ fetches[i].payload.year_type # Null
              /\ fetches[i].payload.year = fetches[i].chosenY
              /\ fetches[i].payload.year_type = fetches[i].chosenYT

\* C6: a rejected answer, in the orchestrator or in the reminder sub-flow, changes
\* no field of the Session or of the ReminderSession, sends no request and sets
\* no timer.
C6_RejectionChangesNothing ==
    [][hist'.ev \in {"reject", "reminderReject"} =>
          /\ state' = state /\ rstate' = rstate
          /\ fetches' = fetches /\ tasks' = tasks]_vars

\* the identity number was rejected: the sub-flow still waits for it
C6_Witness ==
    /\ hist.ev = "reminderReject" /\ rstate.waitingFor = "ic"
    /\ rstate.data.name # NullText /\ rstate.data.ic_number = NullText

\* C7: in a Session of a variant other than the nisab inquiry the calendar system
\* is chosen before the year, and the year before the first field is stored.
C7_YearStepsFirst ==
    state.active /\ state.type \in Variants =>
        /\ state.year # Null => state.yearType # Null
        /\ state.data # EmptyData => state.year # Null /\ state.yearType # Null

C9_DeclaredKeysOnly == DOMAIN state.data \subseteq FieldsOf(state.type)

\* C10: within a Session the step index never decreases and never exceeds the
\* number of steps of the variant.
C10_StepWithinBounds ==
    [][state'.active /\ state'.type # Null =>
          /\ state'.step <= Len(zakatTypes[state'.type])
          /\ (state.active /\ hist'.ev \notin {"start", "nisabRestart"} =>
                 state'.step >= state.step)]_vars

\* C11: when an accepted answer is followed at once by a second submission,
\* the second one leaves the now-stale step alone: every value stored for a
\* declared field is still there, unchanged, and the second submission is not
\* written under a field that is already stored.
C11_StaleStepUntouched ==
    [][/\ state.active
       /\ hist.ev \in {"accept", "calcRequest"}
       /\ hist'.ev \in {"accept", "calcRequest"}
       => \A k \in DOMAIN state.data \cap FieldsOf(state.type) :
              /\ k \in DOMAIN state'.data /\ state'.data[k] = state.data[k]
              /\ StepName(state.type, state.step) # k]_vars

\* the same answer was submitted twice: the second one went to the next step
C11_Witness ==
    /\ state.type = "saham" /\ hist.ev = "calcRequest"
    /\ DOMAIN state.data = {"nilai_portfolio", "hutang_saham"}
    /\ state.data["nilai_portfolio"] = state.data["hutang_saham"]

\* C12: when the computation service reports a failure or cannot be reached, the
\* Session is reset to idle, no result and no hand-off is scheduled, the
\* ReminderSession is untouched, and no request is sent again.
C12_FailureEndsFlow ==
    [][hist'.ev = "calcFailed" =>
          /\ state' = IdleState
          /\ tasks' = tasks /\ rstate' = rstate
          /\ hist'.owed = hist.owed
          /\ Len(fetches') = Len(fetches) - 1
          /\ \A j \in DOMAIN fetches' : \E l \in DOMAIN fetches :
                [fetches[l] EXCEPT !.own = "x"] = [fetches'[j] EXCEPT !.own = "x"]]_vars

\* a failed computation has just ended the flow
C12_Witness ==
    /\ hist.ev = "calcFailed" /\ ~state.active /\ ~rstate.active
    /\ tasks = <<>> /\ fetches = <<>>

C14_ActiveOnlyByStart ==
    [][~state.active /\ state'.active => hist'.ev = "start"]_vars

\* C15: the hand-off creates the ReminderSession with no awaited field, nothing
\* collected, and a context made of the amount of the result, the obligation-type
\* label, and the year and calendar system handed over by offerReminder.
C15_HandOffContext ==
    [][hist'.ev = "handOff" =>
          \E i \in DOMAIN tasks :
              /\ tasks[i].k = "offerReminder"
              /\ rstate'.active /\ rstate'.waitingFor = Null
              /\ rstate'.data.name = NullText
              /\ rstate'.data.ic_number = NullText
              /\ rstate'.data.phone = NullText
              /\ rstate'.data.zakat_amount = Amount(tasks[i].a.data.zakat_amount)
              /\ rstate'.data.zakat_type = reminderLabel(tasks[i].a.zakatType)
              /\ {"year", "year_type"} \subseteq DOMAIN rstate'.data
              /\ rstate'.data.year = tasks[i].a.year
              /\ rstate'.data.year_type = tasks[i].a.yearType]_vars

\* C16: the request sent to the persistence service carries the accepted name,
\* identity number and phone in their normalized form, and the obligation type,
\* amount, year and calendar system of the context.
C16_SaveRequestComplete ==
    \A i \in DOMAIN fetches :
        fetches[i].k = "save" =>
            /\ fetches[i].body.name # NullText
            /\ icAccepted(fetches[i].body.ic_number)
            /\ phoneAccepted(fetches[i].body.phone)
            /\ fetches[i].body.zakat_type # Null
            /\ fetches[i].body.zakat_amount # NoValue
            /\ {"year", "year_type"} \subseteq DOMAIN fetches[i].body

\* C17: the obligation-type label handed to the reminder sub-flow is the label of
\* the variant of the Session that sent the computation request: pendapatan for
\* both income methods, simpanan for savings, its own name for every other variant.
C17_LabelOfVariant ==
    [][hist'.ev = "handOff" =>
          \E i \in DOMAIN tasks :
              /\ tasks[i].k = "offerReminder"
              /\ rstate'.data.zakat_type = zakatTypeMap(tasks[i].a.stype)]_vars

\* C18: the ReminderSession is filled in the order name, identity number, phone:
\* an identity number is stored only with a name, a phone only with an identity
\* number.
C18_FillOrder ==
    /\ rstate.data.ic_number # NullText => rstate.data.name # NullText
    /\ rstate.data.phone # NullText => rstate.data.ic_number # NullText

\* C19: no field of a ReminderSession is awaited before the user accepted an offer
\* after that ReminderSession was created, and none after the user declined.
C19_AwaitOnlyAfterConsent ==
    rstate.waitingFor # Null => hist.answer = "yes"

\* C20: declining the offer ends the ReminderSession: the decline leaves it
\* inactive with every field cleared and sends no request, and no field prompt
\* follows a decline.
C20_DeclineEnds ==
    [][/\ hist'.ev = "declined" => rstate' = ReminderIdle /\ fetches' = fetches
       /\ hist'.ev \in {"askName", "askIC", "askPhone"} => hist.answer # "no"]_vars

\* C21: a cancel keyword received while a field is awaited (name, identity
\* number or phone) aborts the reminder sub-flow: the message reaches the
\* sub-flow and is consumed by it, the ReminderSession becomes the idle one with
\* every collected field cleared, and no persistence request is sent.
C21_CancelKeywordAborts ==
    rstate.waitingFor # Null =>
        LET e == reminderProcessInput(TextBatal)
        IN  /\ isActive
            /\ e.ev = "reminderCancel"
            /\ e.rs = ReminderIdle
            /\ e.fetches = <<>> /\ e.tasks = <<>>

\* C22: while no field is awaited (the ReminderSession is inactive, offers
\* consent, or is between two field prompts) processInput of the sub-flow reports
\* every free-text message as not consumed and changes nothing of the
\* ReminderSession: no field, no timer, no request.
C22_NotWaitingIgnores ==
    [][/\ rstate.waitingFor = Null =>
             \A message \in ReminderTexts :
                 reminderProcessInput(message) = Effect(rstate, <<>>, <<>>, "reminderIgnored")
       /\ hist'.ev = "reminderIgnored" =>
             /\ rstate.waitingFor = Null
             /\ rstate' = rstate /\ tasks' = tasks /\ fetches' = fetches]_vars

\* a message arrived between the name and the identity-number prompt
C22_Witness ==
    /\ hist.ev = "reminderIgnored" /\ rstate.active /\ rstate.waitingFor = Null
    /\ rstate.data.name = TextName /\ rstate.data.ic_number = NullText

\* C23: after the phone is accepted, every outcome of the persistence call
\* (saved, refused, unreachable) ends in the idle ReminderSession, and the
\* confirmation of a saved reminder addresses the user by the first token of the
\* name that was collected and sent.
C23_SaveOutcomeEndsIdle ==
    [][/\ hist'.ev \in {"saved", "saveRefused", "saveError"} => rstate' = ReminderIdle
       /\ hist'.ev = "saved" =>
             \E j \in DOMAIN tasks :
                 /\ tasks[j].k = "saveDone" /\ tasks' = Without(tasks, j)
                 /\ tasks[j].a.sent.name # NullText =>
                       hist'.greeting = FirstToken(tasks[j].a.sent.name)]_vars

\* C24: at most one persistence request is sent per ReminderSession: none after
\* a failed or unreachable save, and none for free text received while the save
\* is in flight.
C24_OneSavePerReminderSession == hist.saves <= 1

\* the context of a ReminderSession: what the hand-off copied into it
Context(rs) == [f \in DOMAIN rs.data \ {"name", "ic_number", "phone"} |-> rs.data[f]]

\* C25: from the creation of a ReminderSession until its destruction its context
\* never changes: no step other than a hand-off (creation) or a reset
\* (destruction) changes a context field, whatever free text, choice or
\* orchestrator event it handles.
C25_ContextImmutable ==
    [][rstate.active /\ rstate'.active /\ hist'.ev # "handOff" =>
          Context(rstate') = Context(rstate)]_vars

\* a new flow was started while the ReminderSession had collected two answers
C25_Witness ==
    /\ hist.ev = "start" /\ state.active
    /\ rstate.active /\ rstate.data.ic_number # NullText
    /\ Context(rstate) = [zakat_type |-> "simpanan", zakat_amount |-> Amount(3000)]

\* what a handler reports after a free-text message
TextEvents ==
    {"ignored", "useButtons", "reject", "accept", "calcRequest", "calcError",
     "reminderIgnored", "reminderCancel", "reminderReject",
     "nameAccepted", "icAccepted", "phoneAccepted"}

\* C26: while the Session awaits a discrete choice (step < 2, also while the
\* year list is being fetched) a free-text message yields only the
\* use-the-buttons notice: it is consumed, no Session field changes and no
\* request is sent.
C26_UseButtonsOnly ==
    [][state.active /\ state.step < 2 /\ hist'.ev \in TextEvents =>
          /\ hist'.ev = "useButtons"
          /\ state' = state /\ fetches' = fetches]_vars

\* C27: once a calendar-system choice (a year choice) of the Session has been
\* accepted, a second choice event for that step is inert: it changes no Session
\* field and sends no second calendar-service request (sets no second step
\* advance and no second nisab request).
C27_SecondChoiceInert ==
    [][/\ hist'.ev = "yearTypeChoice" /\ hist.chosenYT # Null =>
             state' = state /\ fetches' = fetches
       /\ hist'.ev = "yearChoice" /\ hist.chosenY # Null =>
             state' = state /\ tasks' = tasks]_vars

\* the fixed fallback lists of a calendar system
FallbackLists(yearType) == {defaultYears(yearType), displayYears(<<>>, yearType)}

\* C28: when the calendar-service call fails, or succeeds with an empty list,
\* the Session is left as it is and stays active, no second request is sent, the
\* informational notice is surfaced, and the year list then offered is a fixed
\* fallback list of the requested calendar system with 3 to 4 entries.
C28_FallbackYears ==
    [][/\ hist'.ev \in {"yearsFallback", "yearsReply"} =>
             LET t == tasks'[Len(tasks')]
             IN  hist'.ev = "yearsFallback" \/ t.a.years = <<>> =>
                     /\ t.k = "showYears" /\ t.a.notice
                     /\ state'.active = state.active /\ state'.step = state.step
                     /\ Len(fetches') = Len(fetches) - 1
       /\ hist'.ev = "yearList" =>
             \E j \in DOMAIN tasks :
                 /\ tasks[j].k = "showYears" /\ tasks' = Without(tasks, j)
                 /\ tasks[j].a.notice \/ tasks[j].a.years = <<>> =>
                       LET offered == dom'[Len(dom')].years
                       IN  /\ offered \in FallbackLists(tasks[j].a.yearType)
                           /\ Len(offered) \in 3..4
                           /\ fetches' = fetches /\ state' = state]_vars

\* C29: when the calendar service returned a non-empty list, the year choices
\* offered are its first 5 entries in the returned order (the whole list when it
\* has at most 5); in every case the list offered has between 1 and 5 entries.
C29_FirstFiveYears ==
    [][hist'.ev = "yearList" =>
          \E j \in DOMAIN tasks :
              /\ tasks[j].k = "showYears" /\ tasks' = Without(tasks, j)
              /\ LET years == tasks[j].a.years
                     offered == dom'[Len(dom')].years
                 IN  /\ Len(offered) \in 1..5
                     /\ years # <<>> =>
                           /\ Len(offered) = (IF Len(years) <= 5 THEN Len(years) ELSE 5)
                           /\ \A k \in 1..Len(offered) : offered[k] = years[k]]_vars

\* a returned list of six entries was offered as five; the sixth differs from the fifth
C29_Witness ==
    /\ hist.ev = "yearList" /\ dom # <<>>
    /\ Len(state.availableYears) = 6 /\ state.availableYears[6] # state.availableYears[5]
    /\ dom[Len(dom)].years = SubSeq(state.availableYears, 1, 5)

\* the validator on every blank text and every field of every variant, and the
\* payload of a provident-fund Session whose withdrawal was left blank
BlankAnswerRule ==
    /\ \A type \in Variants, message \in BlankTexts :
          \A k \in FieldsOf(type) \cup {Undefined} :
              validateInput(message, k) =
                  (IF k \in {"hutang_saham", "jumlah_pengeluaran"} THEN Zero ELSE NoValue)
    /\ \A v \in {Zero, Num(FALSE, <<"5">>, <<>>)} :
          payloadOf([startZakatCalculation("kwsp") EXCEPT
                        !.data = [jumlah_akaun_1 |-> v, jumlah_akaun_2 |-> v,
                                  jumlah_pengeluaran |-> Zero]]
                   ).fields.jumlah_pengeluaran = Zero

\* C30: for the two optional fields (outstanding debt of the equities flow,
\* withdrawal of the provident-fund flow) an answer that is empty after stripping
\* is accepted as 0: 0 is stored, the step advances and the payload carries 0 for
\* the field; for every other field such an answer is rejected.
C30_OptionalDefaultsToZero ==
    [][/\ BlankAnswerRule
       /\ hist'.blank =>
             LET k == StepName(state.type, state.step)
             IN  IF k \in {"hutang_saham", "jumlah_pengeluaran"}
                 THEN /\ hist'.ev \in {"accept", "calcRequest"}
                      /\ state'.data[k] = Zero /\ state'.step = state.step + 1
                      /\ hist'.ev = "calcRequest" =>
                            fetches'[Len(fetches')].payload.fields[k] = Zero
                 ELSE hist'.ev = "reject" /\ state' = state /\ fetches' = fetches]_vars

\* the debt of the equities flow was left blank: the request carries 0 for it
C30_Witness ==
    /\ hist.ev = "calcRequest" /\ hist.blank /\ state.type = "saham"
    /\ state.data["nilai_portfolio"] = ParseFloat(Text5000)
    /\ state.data["hutang_saham"] = Zero
    /\ fetches[Len(fetches)].payload.fields.hutang_saham = Zero

\* a Session of a variant in which field number n of its step list holds n
Collected(type) ==
    [startZakatCalculation(type) EXCEPT
        !.step = Len(zakatTypes[type]), !.year = "2025", !.yearType = "M",
        !.data = [k \in FieldsOf(type) |->
                     Num(FALSE, <<CHOOSE d \in Digits :
                                    \E n \in 3..Len(zakatTypes[type]) :
                                       zakatTypes[type][n] = k /\ d = ToString(n)>>, <<>>)]]

\* the payload of every variant carries each declared field under its mapped name
MappedNames ==
    /\ \A type \in Variants :
          /\ payloadOf(Collected(type)).year = "2025"
          /\ payloadOf(Collected(type)).year_type = "M"
    /\ payloadOf(Collected("income_kaedah_a")).fields =
          [gross_income |-> Collected("income_kaedah_a").data["amount"]]
    /\ payloadOf(Collected("income_kaedah_b")).fields =
          [annual_income |-> Collected("income_kaedah_b").data["amount"],
           annual_expenses |-> Collected("income_kaedah_b").data["expenses"]]
    /\ payloadOf(Collected("savings")).fields =
          [savings_amount |-> Collected("savings").data["amount"]]
    /\ payloadOf(Collected("padi")).fields =
          [jumlah_rm |-> Collected("padi").data["jumlah_hasil_rm"]]
    /\ \A type \in {"saham", "perak", "kwsp"} :
          payloadOf(Collected(type)).fields = Collected(type).data

\* C31: a computation request is dispatched only when every field of the
\* variant's step list has been collected, exactly when the final field is
\* accepted, and its payload is the mapped payload of the Session, which carries
\* each declared field under the variant's mapped name.
C31_RequestWhenComplete ==
    [][/\ MappedNames
       /\ hist'.ev = "calcRequest" =>
             /\ state.step = Len(zakatTypes[state.type]) - 1
             /\ FieldsOf(state.type) \subseteq DOMAIN state'.data
             /\ state'.year # Null /\ state'.yearType # Null
             /\ Len(fetches') = Len(fetches) + 1
             /\ fetches'[Len(fetches')].payload = payloadOf(state')
       /\ hist'.ev = "accept" => state.step < Len(zakatTypes[state.type]) - 1
       /\ Len(fetches') > Len(fetches) /\ fetches'[Len(fetches')].k = "calc" =>
             hist'.ev = "calcRequest"]_vars


\* the local form the phone rule is to produce for a typed case, and whether the
\* rule is to accept it: a leading 0, +60 or 60 is written as 0, and the text is
\* accepted iff that 0 is followed by 9 or 10 digits
LocalForm(c) == <<"0">> \o c.body
PhoneToAccept(c) ==
    /\ c.deco # "lettered"
    /\ c.prefix \in {<<"0">>, <<"+", "6", "0">>, <<"6", "0">>}
    /\ Len(c.body) \in {9, 10}

\* +60123456789 in local form
LocalExample == <<"0", "1", "2", "3", "4", "5", "6", "7", "8", "9">>

\* C32: the phone rule strips spaces and hyphens, rewrites a leading +60 or 60 to
\* a leading 0, accepts iff the final form is 0 followed by 9 or 10 digits, and
\* stores and sends that final form; a rejected text changes nothing.
C32_PhoneRule ==
    /\ rstate.active /\ rstate.waitingFor = "phone" =>
          \A c \in PhoneCases :
              LET e == reminderProcessInput(Decorated(c.prefix, c.body, c.deco))
              IN  IF PhoneToAccept(c)
                  THEN /\ e.ev = "phoneAccepted"
                       /\ e.rs.data.phone = LocalForm(c)
                       /\ Len(e.fetches) = 1
                       /\ e.fetches[1].body.phone = LocalForm(c)
                  ELSE /\ e.ev = "reminderReject"
                       /\ e.rs = rstate
                       /\ e.fetches = <<>>
    /\ rstate.active /\ rstate.waitingFor = "phone" =>
          reminderProcessInput(TextPhone).rs.data.phone = LocalExample
    /\ hist.ev = "phoneAccepted" =>
          /\ Len(rstate.data.phone) \in {10, 11}
          /\ rstate.data.phone[1] = "0"
          /\ \A i \in 2..Len(rstate.data.phone) : rstate.data.phone[i] \in Digits
          /\ fetches[Len(fetches)].body.phone = rstate.data.phone

C32_Witness ==
    /\ hist.ev = "phoneAccepted"
    /\ rstate.data.phone = LocalExample
    /\ fetches[Len(fetches)].body.phone = rstate.data.phone


\* 950101-01-5678 without its hyphens
IcExample == <<"9", "5", "0", "1", "0", "1", "0", "1", "5", "6", "7", "8">>

\* C33: the identity-number rule accepts a text iff, with hyphens and spaces
\* removed, it is exactly 12 digits, and stores that stripped form; a rejected
\* text changes nothing.
C33_IcRule ==
    /\ rstate.active /\ rstate.waitingFor = "ic" =>
          /\ \A c \in IcCases :
                LET e == reminderProcessInput(Decorated(c.prefix, c.body, c.deco))
                IN  IF c.deco # "lettered" /\ Len(c.body) = 12
                    THEN /\ e.ev = "icAccepted"
                         /\ e.rs.data.ic_number = c.body
                    ELSE /\ e.ev = "reminderReject"
                         /\ e.rs = rstate
          /\ reminderProcessInput(TextIC).rs.data.ic_number = IcExample
    /\ hist.ev = "icAccepted" =>
          /\ Len(rstate.data.ic_number) = 12
          /\ \A i \in 1..12 : rstate.data.ic_number[i] \in Digits

C33_Witness ==
    /\ hist.ev = "icAccepted"
    /\ rstate.data.ic_number = IcExample


\* what the amount rule is to return for a typed case: the number, if what is
\* left after stripping is a non-negative decimal number, the rejection value
\* otherwise
AmountToReturn(c) ==
    IF c.tail # <<>> \/ c.sign # <<>> \/ (c.int = <<>> /\ c.frac = <<>>)
    THEN NoValue
    ELSE Num(FALSE, IF c.int = <<>> THEN <<"0">> ELSE c.int,
             IF c.frac = <<>> THEN <<>> ELSE Tail(c.frac))

\* C34: the currency-amount rule strips thousands separators, currency markers
\* and whitespace, accepts the text iff the remainder is a non-negative decimal
\* number and returns that number; every other text gets the rejection value.
C34_AmountRule ==
    state.active /\ state.step >= 2 /\ ~isActive =>
        \A c \in AmountCases :
            validateInput(AmountText(c), StepName(state.type, state.step))
                = AmountToReturn(c)


\* C35: the ReminderSession awaits a field only while it is active, and a
\* deferred prompt (askName, askIC, askPhone) puts only the ReminderSession that
\* scheduled it into an awaiting state: the one that consented for askName, the
\* one holding the accepted name for askIC, the accepted identity number for
\* askPhone.
C35_AwaitingOnlyWhenActive ==
    /\ rstate.waitingFor # Null => rstate.active
    /\ hist.ev = "askName" => hist.answer = "yes"
    /\ hist.ev = "askIC" => rstate.data.name # NullText
    /\ hist.ev = "askPhone" => rstate.data.ic_number # NullText


\* C36: whenever the Session is inactive it has no variant, step 0, no collected
\* field, no calendar system and no year.
C36_IdleSessionInitial ==
    ~state.active =>
        /\ state.type = Null /\ state.step = 0 /\ state.data = EmptyData
        /\ state.yearType = Null /\ state.year = Null


\* C37: the teardown that follows a hand-off resets only the Session that
\* produced the result: a Session that is active when the teardown runs and has
\* sent no computation request (it was started after the response) is left as it
\* is.
C37_TeardownOwnSession ==
    [][hist'.ev = "teardown" /\ state.active /\ hist.sessCalcs = 0 =>
          state' = state]_vars


\* C38: while the ReminderSession is active, free text given to the orchestrator
\* goes to the reminder sub-flow only: the Session keeps its step and its
\* collected fields (every field), and no computation request is sent, also when
\* a Session is active at the same time.
C38_ReminderTextOnly ==
    [][rstate.active /\ hist'.ev \in TextEvents =>
          /\ hist'.ev \in {"reminderIgnored", "reminderCancel", "reminderReject",
                           "nameAccepted", "icAccepted", "phoneAccepted"}
          /\ state' = state
          /\ \A i \in DOMAIN fetches' :
                i > Len(fetches) => fetches'[i].k = "save"]_vars

C38_Witness ==
    /\ hist.ev = "nameAccepted"
    /\ rstate.active /\ rstate.data.name = TextName
    /\ state.active /\ state.step = 2 /\ state.data = EmptyData


\* the flow variant each keyword message names
NamedVariant ==
    {<<TextZakatPadi, "padi">>, <<TextKiraZakatSaham, "saham">>,
     <<TextZakatKwsp, "kwsp">>, <<TextZakatEpf, "kwsp">>,
     <<TextZakatSimpanan, "savings">>, <<TextZakatSilver, "perak">>,
     <<TextZakatPerak, "perak">>, <<TextKiraZakatPerak, "perak">>}

\* C39: detectZakatIntent maps a message to the flow variant its keyword names,
\* for every variant of the catalog: 'zakat perak' and 'zakat silver' yield perak
\* as 'zakat padi', 'zakat saham' and 'zakat kwsp' yield padi, saham and kwsp,
\* whether or not a Session is active.
C39_IntentNamesVariant ==
    \A p \in NamedVariant : detectZakatIntent(p[1]) = p[2]

=============================================================================
